---------------------------- MODULE Spec2Model ----------------------------
(***************************************************************************)
(* Model of the two report tools of weather-data-collector-spain:          *)
(*   scripts/python/audit_municipal_forecast_coverage.py (Coverage Auditor) *)
(*   scripts/python/summarize_barcelona_datasets.py     (Dataset Summarizer)*)
(*                                                                         *)
(* A Python str is a sequence of one-character strings, so that strip,     *)
(* zfill, slicing and the code-point ordering used by <, > and sorted()    *)
(* are computed rather than assumed.  Python's None is the value None.     *)
(***************************************************************************)
EXTENDS Integers, Sequences, FiniteSets, TLC

VARIABLES
    pc,                 \* position of the running program
    stdout,             \* lines written to standard output, in order
    stderr,             \* lines written to standard error, in order
    status,             \* process exit status (None while running)
    \* ---- Coverage Auditor
    ref_file,           \* the file at REF_PATH
    forecast_file,      \* the file at FORECAST_PATH
    EXPECTED_ABSENT,    \* module-level allow-list
    ref_ids,
    forecast_ids,
    missing,
    unexpected_present,
    \* ---- Dataset Summarizer
    targets,            \* the (label, path) list given to main
    idx,                \* index of the target main's loop is at
    handle,             \* decoder of the handle open_text returned ("none" before)
    row_i,              \* number of rows the running scan has consumed
    per_day,
    min_date,
    max_date,
    min_ts,
    max_ts,
    collected_at,
    total_rows,
    stats,              \* the dict returned by the last finished scan
    title,              \* emit_summary's arguments when called on its own
    last_n

audit_vars == <<ref_file, forecast_file, EXPECTED_ABSENT, ref_ids, forecast_ids,
                missing, unexpected_present>>
scan_vars == <<handle, row_i, per_day, min_date, max_date, min_ts, max_ts, collected_at,
               total_rows>>
summ_vars == <<targets, idx, scan_vars, stats>>
emit_vars == <<title, last_n>>
vars == <<pc, stdout, stderr, status, audit_vars, summ_vars, emit_vars>>

-----------------------------------------------------------------------------
(* Python values *)

\* Python's None: a one-element sequence whose element is no character, so it
\* differs from every str, the empty str included.
None == <<"None">>

\* The characters the inputs are written in, in code-point order.
Alphabet == <<" ", "+", "-", "0", "1", "2", "3", "4", "5", "6", "7", "8", "9",
              ":", "A", "B", "T">>

ord(c) == CHOOSE i \in 1..Len(Alphabet) : Alphabet[i] = c

\* A test for None alone, under which the empty str passes.
Truthy_unless_none(v) == v # None

\* bool(v) for v a str or None: `if v`, `if not v`.
Truthy(v) == v # None /\ v # <<>>

\* a < b on str: decided by the code points at the first position where the
\* two differ, a proper prefix being smaller.
StrLt(a, b) ==
    LET n == IF Len(a) < Len(b) THEN Len(a) ELSE Len(b)
        diff == {k \in 1..n : a[k] # b[k]}
    IN  IF diff = {} THEN Len(a) < Len(b)
        ELSE LET k == CHOOSE i \in diff : \A j \in diff : i <= j
             IN  ord(a[k]) < ord(b[k])

StrLe(a, b) == a = b \/ StrLt(a, b)

\* sorted(S) for a set of str: ascending, as a list.
RECURSIVE sorted(_)
sorted(S) ==
    IF S = {} THEN <<>>
    ELSE LET m == CHOOSE x \in S : \A y \in S : StrLe(x, y)
         IN  <<m>> \o sorted(S \ {m})

RECURSIVE lstrip(_)
lstrip(s) == IF s # <<>> /\ Head(s) = " " THEN lstrip(Tail(s)) ELSE s

RECURSIVE rstrip(_)
rstrip(s) ==
    IF s # <<>> /\ s[Len(s)] = " " THEN rstrip(SubSeq(s, 1, Len(s) - 1)) ELSE s

\* str.strip()
strip(s) == rstrip(lstrip(s))

Zeros(n) == [i \in 1..n |-> "0"]

\* zfill that pads nothing.
zfill_unpadded(s, width) == s

\* str.zfill(width): pad on the left with "0", after a leading sign if any;
\* a str already that long is returned unchanged.
zfill(s, width) ==
    IF Len(s) >= width THEN s
    ELSE IF s # <<>> /\ Head(s) \in {"+", "-"}
         THEN <<Head(s)>> \o Zeros(width - Len(s)) \o Tail(s)
         ELSE Zeros(width - Len(s)) \o s

\* s[:n]
SliceTo(s, n) == SubSeq(s, 1, IF Len(s) < n THEN Len(s) ELSE n)

\* dict.get(key): the value, or None when the key is absent.
Get(row, key) == IF key \in DOMAIN row THEN row[key] ELSE None

\* The decimal digits of n, zero-padded to w characters (notation for literals).
RECURSIVE Lit(_, _)
Lit(n, w) == IF w = 0 THEN <<>> ELSE Lit(n \div 10, w - 1) \o <<Alphabet[4 + (n % 10)]>>

-----------------------------------------------------------------------------
(* Coverage Auditor: audit_municipal_forecast_coverage.py *)

NEW_MUNICIPIOS ==
    {Lit(n, 5) : n \in {11903, 14901, 14902, 18077, 21902, 41904}}

COMMUNAL_CODES ==
    {Lit(n, 5) : n \in ((53000..53083) \ {53030, 53079, 53082}) \cup (54001..54005)}

\* EXPECTED_ABSENT = NEW_MUNICIPIOS | COMMUNAL_CODES
EXPECTED_ABSENT_default == NEW_MUNICIPIOS \cup COMMUNAL_CODES

IdWidth == 5
SampleLen == 20
DayLen == 10
LastNDefault == 7

MaxRefRows == 3
MaxForecastRows == 2

\* CUMUN cells a reference file may hold; None is a row shorter than the header.
RefCells == <<Lit(1, 1), Lit(1234, 5), Lit(5000, 4),
              <<" ">> \o Lit(11903, 5) \o <<" ">>, <<" ", " ">>, <<>>, None>>

\* municipio_id cells a forecast file may hold.
ForecastCells == <<Lit(1, 5), Lit(5000, 5), Lit(1234, 5), Lit(11903, 5), Lit(1, 1),
                   <<>>, None>>

\* The lists of at most n rows over the cells, rows in the order of the cells
\* (the loaders build sets, so one order per multiset of cells is enumerated).
RowLists(cells, col, n) ==
    UNION {{[i \in 1..k |-> [c \in {col} |-> cells[ix[i]]]] :
               ix \in {f \in [1..k -> 1..Len(cells)] :
                          \A i \in 1..k, j \in 1..k : i < j => f[i] <= f[j]}} :
           k \in 0..n}

NoFile == [exists |-> FALSE, gz |-> FALSE, fieldnames |-> None, rows |-> <<>>]

\* The files that may sit at a path whose required column is col: none; an empty
\* file; a file without the column; a file with the column and some rows.  gz
\* tells whether the bytes are a gzip stream or plain text.
FilesAt(cells, col, n) ==
    {NoFile}
    \cup {[exists |-> TRUE, gz |-> g, fieldnames |-> None, rows |-> <<>>] : g \in BOOLEAN}
    \cup {[exists |-> TRUE, gz |-> g, fieldnames |-> <<"NAME">>, rows |-> <<>>] :
             g \in BOOLEAN}
    \cup {[exists |-> TRUE, gz |-> g, fieldnames |-> <<col, "NAME">>, rows |-> r] :
             g \in BOOLEAN, r \in RowLists(cells, col, n)}

HasField(fieldnames, col) == \E i \in 1..Len(fieldnames) : fieldnames[i] = col

\* print(...): one line, a format and its arguments.
Line(text, args) == [text |-> text, args |-> args]

\* The body of load_reference_ids' loop over the rows.
reference_ids_of(rows) ==
    {zfill(strip(rows[i]["CUMUN"]), IdWidth) :
        i \in {j \in 1..Len(rows) :
                  /\ Get(rows[j], "CUMUN") # None
                  /\ strip(rows[j]["CUMUN"]) # <<>>}}

\* The body of load_forecast_ids' loop over the rows.
forecast_ids_of(rows) ==
    {rows[i]["municipio_id"] :
        i \in {j \in 1..Len(rows) : Truthy(Get(rows[j], "municipio_id"))}}

\* An exception no handler catches: the interpreter prints the traceback and
\* exits with status 1.
Uncaught(exc) ==
    /\ stderr' = Append(stderr, Line("Traceback: {}", <<exc>>))
    /\ status' = 1
    /\ pc' = "exit"
    /\ UNCHANGED stdout

\* A fatal error reported on standard output, ending as a plain failure.
Fatal_on_stdout(msg) ==
    /\ stdout' = Append(stdout, Line(msg, <<>>))
    /\ status' = 1
    /\ pc' = "exit"
    /\ UNCHANGED stderr

\* print(..., file=sys.stderr); sys.exit(2)
Fatal(msg) ==
    /\ stderr' = Append(stderr, Line(msg, <<>>))
    /\ status' = 2
    /\ pc' = "exit"
    /\ UNCHANGED stdout

\* load_reference_ids(REF_PATH); gzip.open decodes on the first read, which is
\* the read of the header row by reader.fieldnames.
load_reference_ids ==
    /\ pc = "load_reference_ids"
    /\ \/ /\ ~ref_file.exists
          /\ Fatal("ERROR: reference file not found: {path}")
          /\ UNCHANGED ref_ids
       \/ /\ ref_file.exists /\ ~ref_file.gz
          /\ Uncaught("gzip.BadGzipFile")
          /\ UNCHANGED ref_ids
       \/ /\ ref_file.exists /\ ref_file.gz
          /\ ref_file.fieldnames = None \/ ~HasField(ref_file.fieldnames, "CUMUN")
          /\ Fatal("ERROR: reference file missing CUMUN header")
          /\ UNCHANGED ref_ids
       \/ /\ ref_file.exists /\ ref_file.gz
          /\ ref_file.fieldnames # None /\ HasField(ref_file.fieldnames, "CUMUN")
          /\ ref_ids' = reference_ids_of(ref_file.rows)
          /\ pc' = "load_forecast_ids"
          /\ UNCHANGED <<stdout, stderr, status>>
    /\ UNCHANGED <<ref_file, forecast_file, EXPECTED_ABSENT, forecast_ids,
                   missing, unexpected_present, summ_vars, emit_vars>>

\* load_forecast_ids(FORECAST_PATH); the file is opened as plain utf-8 text, in
\* which the second byte of a gzip stream (0x8b) cannot be decoded.
load_forecast_ids ==
    /\ pc = "load_forecast_ids"
    /\ \/ /\ ~forecast_file.exists
          /\ Fatal("ERROR: forecast file not found: {path}")
          /\ UNCHANGED forecast_ids
       \/ /\ forecast_file.exists /\ forecast_file.gz
          /\ Uncaught("UnicodeDecodeError")
          /\ UNCHANGED forecast_ids
       \/ /\ forecast_file.exists /\ ~forecast_file.gz
          /\ \/ forecast_file.fieldnames = None
             \/ ~HasField(forecast_file.fieldnames, "municipio_id")
          /\ Fatal("ERROR: forecast file missing municipio_id header")
          /\ UNCHANGED forecast_ids
       \/ /\ forecast_file.exists /\ ~forecast_file.gz
          /\ forecast_file.fieldnames # None
          /\ HasField(forecast_file.fieldnames, "municipio_id")
          /\ forecast_ids' = forecast_ids_of(forecast_file.rows)
          /\ pc' = "report"
          /\ UNCHANGED <<stdout, stderr, status>>
    /\ UNCHANGED <<ref_file, forecast_file, EXPECTED_ABSENT, ref_ids,
                   missing, unexpected_present, summ_vars, emit_vars>>

\* The allow-list left out of the difference.
missing_ignoring_allowlist(R, F, E) == sorted(R \ F)

\* missing = sorted(ref_ids - forecast_ids - EXPECTED_ABSENT)
missing_of(R, F, E) == sorted((R \ F) \ E)

\* unexpected_present = sorted(forecast_ids & EXPECTED_ABSENT)
unexpected_present_of(F, E) == sorted(F \cap E)

\* The lines main prints for the given results.
report_lines(R, F, E, miss, unexp) ==
    <<Line("Reference municipalities: {}", <<Cardinality(R)>>),
      Line("Forecast municipalities: {}", <<Cardinality(F)>>),
      Line("Ignored IDs (expected absent): {}", <<Cardinality(E)>>)>>
    \o (IF unexp # <<>>
        THEN <<Line("WARNING: expected-absent IDs present in forecast data: {}",
                    <<unexp>>)>>
        ELSE <<>>)
    \o (IF miss # <<>>
        THEN <<Line("ERROR: {} reference municipios missing from forecasts.",
                    <<Len(miss)>>),
               Line("Sample missing IDs: {}{}",
                    <<SliceTo(miss, SampleLen),
                      IF Len(miss) > SampleLen THEN "..." ELSE "">>)>>
        ELSE <<Line("Municipal forecast coverage OK (excluding expected gaps).", <<>>)>>)

\* A status that ignores the missing identifiers.
exit_status_always_ok(miss) == 0

\* main's return value.
exit_status(miss) == IF miss # <<>> THEN 1 ELSE 0

\* main, after both loads: the set arithmetic, the report, sys.exit(main()).
report ==
    /\ pc = "report"
    /\ missing' = missing_of(ref_ids, forecast_ids, EXPECTED_ABSENT)
    /\ unexpected_present' = unexpected_present_of(forecast_ids, EXPECTED_ABSENT)
    /\ stdout' = stdout \o report_lines(ref_ids, forecast_ids, EXPECTED_ABSENT,
                                        missing', unexpected_present')
    /\ status' = exit_status(missing')
    /\ pc' = "exit"
    /\ UNCHANGED <<stderr, ref_file, forecast_file, EXPECTED_ABSENT, ref_ids,
                   forecast_ids, summ_vars, emit_vars>>

\* The allow-lists the module may be run with: the one it ships, and the ones
\* the documented properties are stated for.
ExpectedAbsentChoices ==
    {EXPECTED_ABSENT_default, {}, {Lit(1, 5)}, {Lit(1, 5), Lit(1234, 5)}}

\* Values of the other tool's variables, which the running tool never touches.
IdleAudit ==
    /\ ref_file = NoFile /\ forecast_file = NoFile /\ EXPECTED_ABSENT = {}
    /\ ref_ids = {} /\ forecast_ids = {}
    /\ missing = <<>> /\ unexpected_present = <<>>

IdleScan ==
    /\ handle = "none" /\ row_i = 0 /\ per_day = <<>> /\ total_rows = 0
    /\ min_date = None /\ max_date = None /\ min_ts = None /\ max_ts = None
    /\ collected_at = None

IdleSumm == targets = <<>> /\ idx = 1 /\ IdleScan /\ stats = <<>>

IdleEmit == title = <<>> /\ last_n = LastNDefault

InitAudit ==
    /\ pc = "load_reference_ids"
    /\ stdout = <<>> /\ stderr = <<>> /\ status = None
    /\ ref_file \in FilesAt(RefCells, "CUMUN", MaxRefRows)
    /\ forecast_file \in FilesAt(ForecastCells, "municipio_id", MaxForecastRows)
    /\ EXPECTED_ABSENT \in ExpectedAbsentChoices
    /\ ref_ids = {} /\ forecast_ids = {}
    /\ missing = <<>> /\ unexpected_present = <<>>
    /\ IdleSumm /\ IdleEmit

NextAudit == load_reference_ids \/ load_forecast_ids \/ report

SpecAudit == InitAudit /\ [][NextAudit]_vars

-----------------------------------------------------------------------------
(* Dataset Summarizer: summarize_barcelona_datasets.py *)

\* open_text(path): gzip.open(path, "rt") opens the file without reading it,
\* so it raises OSError only when the file cannot be opened at all, and then
\* path.open fails likewise; for every file that exists the handle returned is
\* the gzip one.
open_text(file) == "gzip"

\* Whether the first read through the handle decodes the file's bytes.
Decodes(decoder, file) == IF decoder = "gzip" THEN file.gz ELSE ~file.gz

\* min_date = date_val if min_date is None or date_val < min_date else min_date
next_min(cur, v) == IF cur = None \/ StrLt(v, cur) THEN v ELSE cur

\* max_date = date_val if max_date is None or date_val > max_date else max_date
next_max(cur, v) == IF cur = None \/ StrLt(cur, v) THEN v ELSE cur

\* One set shared by every day (defaultdict handing out the same set).
add_key_shared(pd, day, key) ==
    LET all == UNION {pd[d] : d \in DOMAIN pd} \cup {key}
    IN  [d \in DOMAIN pd \cup {day} |-> all]

\* per_day[day].add(key), per_day a defaultdict(set)
add_key(pd, day, key) ==
    [d \in DOMAIN pd \cup {day} |->
        IF d = day THEN (IF d \in DOMAIN pd THEN pd[d] ELSE {}) \cup {key} ELSE pd[d]]

\* A day marked as seen instead of counted.
add_count_flag(pd, day) ==
    [d \in DOMAIN pd \cup {day} |-> IF d = day THEN 1 ELSE pd[d]]

\* per_day[day] += 1, per_day a defaultdict(int)
add_count(pd, day) ==
    [d \in DOMAIN pd \cup {day} |->
        IF d = day THEN (IF d \in DOMAIN pd THEN pd[d] ELSE 0) + 1 ELSE pd[d]]

\* The dataset the loop of main is at.
Target == targets[idx]

StartsWith(s, prefix) == Len(s) >= Len(prefix) /\ SubSeq(s, 1, Len(prefix)) = prefix

Hourly == <<"H", "o", "u", "r", "l", "y">>
Forecast == <<"F", "o", "r", "e", "c", "a", "s", "t">>
HistoricalDaily ==
    <<"H", "i", "s", "t", "o", "r", "i", "c", "a", "l", " ", "D", "a", "i", "l", "y">>
CurrentDaily == <<"C", "u", "r", "r", "e", "n", "t", " ", "D", "a", "i", "l", "y">>

\* The branch of main a label selects.
kind_of(label) ==
    IF StartsWith(label, Hourly) THEN "hourly"
    ELSE IF StartsWith(label, Forecast) THEN "forecast"
    ELSE "daily"

\* sorted(per_day.items()): the items in ascending order of their keys.
sorted_items(pd) ==
    LET days == sorted(DOMAIN pd)
    IN  [i \in 1..Len(days) |-> <<days[i], pd[days[i]]>>]

\* seq[-n:]
SliceLast(seq, n) ==
    LET len == Len(seq)
        start == IF n > 0 THEN (IF len > n THEN len - n ELSE 0)
                 ELSE IF n = 0 THEN 0
                 ELSE (IF -n < len THEN -n ELSE len)
    IN  SubSeq(seq, start + 1, len)

SummaryKeys == <<"rows", "min_date", "max_date", "min_ts", "max_ts", "latest_collected_at">>

\* `key in stats and stats[key] is not None`; "rows" is an int in every dict the
\* scans return, the other five are a str or None.
Printed(st, key) == key \in DOMAIN st /\ (key = "rows" \/ st[key] # None)

RECURSIVE field_lines(_, _)
field_lines(st, keys) ==
    IF keys = <<>> THEN <<>>
    ELSE (IF Printed(st, Head(keys))
          THEN <<Line("{}: {}", <<Head(keys), st[Head(keys)]>>)>>
          ELSE <<>>) \o field_lines(st, Tail(keys))

\* A summary that lists the first N days.
per_day_lines_first_n(st, n) ==
    LET per_day_key ==
            IF "per_day_counts" \in DOMAIN st THEN "per_day_counts" ELSE "per_day_rows"
    IN  IF per_day_key \in DOMAIN st /\ DOMAIN st[per_day_key] # {}
        THEN LET recent == SliceTo(sorted_items(st[per_day_key]), n)
                 label == IF per_day_key = "per_day_counts"
                          THEN "stations_per_day" ELSE "rows_per_day"
             IN  <<Line("{} (last {} days):", <<label, Len(recent)>>)>>
                 \o [i \in 1..Len(recent) |-> Line("  {}: {}", recent[i])]
        ELSE <<>>

\* emit_summary, the per-day block.
per_day_lines(st, n) ==
    LET per_day_key ==
            IF "per_day_counts" \in DOMAIN st THEN "per_day_counts" ELSE "per_day_rows"
    IN  IF per_day_key \in DOMAIN st /\ DOMAIN st[per_day_key] # {}
        THEN LET recent == SliceLast(sorted_items(st[per_day_key]), n)
                 label == IF per_day_key = "per_day_counts"
                          THEN "stations_per_day" ELSE "rows_per_day"
             IN  <<Line("{} (last {} days):", <<label, Len(recent)>>)>>
                 \o [i \in 1..Len(recent) |-> Line("  {}: {}", recent[i])]
        ELSE <<>>

\* emit_summary(title, stats, last_n=n): the lines it prints.
emit_summary(ttl, st, n) ==
    <<Line("=== {} ===", <<ttl>>)>>
    \o field_lines(st, SummaryKeys)
    \o per_day_lines(st, n)
    \o <<Line("", <<>>)>>

\* main, at the head of its loop: a missing file is reported and skipped,
\* any other file is handed to the scan its label selects.
main_next ==
    /\ pc = "main"
    /\ idx <= Len(targets)
    /\ \/ /\ ~Target.path.exists
          /\ stdout' = stdout \o <<Line("=== {} ===", <<Target.label>>),
                                   Line("File not found: {}", <<"path">>),
                                   Line("", <<>>)>>
          /\ idx' = idx + 1
          /\ UNCHANGED <<pc, scan_vars>>
       \/ /\ Target.path.exists
          /\ pc' = kind_of(Target.label)
          /\ handle' = open_text(Target.path)
          /\ row_i' = 0 /\ per_day' = <<>> /\ total_rows' = 0
          /\ min_date' = None /\ max_date' = None
          /\ min_ts' = None /\ max_ts' = None
          /\ collected_at' = None
          /\ UNCHANGED <<stdout, idx>>
    /\ UNCHANGED <<stderr, status, targets, stats, audit_vars, emit_vars>>

\* main returns and the interpreter exits.
main_return ==
    /\ pc = "main"
    /\ idx > Len(targets)
    /\ pc' = "exit"
    /\ status' = 0
    /\ UNCHANGED <<stdout, stderr, audit_vars, summ_vars, emit_vars>>

\* The first read of a scan (csv.DictReader reading the header row) through a
\* handle whose decoder does not match the file: gzip.BadGzipFile, uncaught.
scan_read_error ==
    /\ pc \in {"daily", "hourly", "forecast"}
    /\ ~Decodes(handle, Target.path)
    /\ Uncaught("gzip.BadGzipFile")
    /\ UNCHANGED <<audit_vars, summ_vars, emit_vars>>

NextRow == Target.path.rows[row_i + 1]

\* summarise_daily_file, one pass of the loop over the rows.
summarise_daily_file_row ==
    /\ pc = "daily"
    /\ Decodes(handle, Target.path)
    /\ row_i < Len(Target.path.rows)
    /\ LET date_val == Get(NextRow, "fecha")
           station_val == Get(NextRow, "indicativo")
       IN  /\ total_rows' = total_rows + 1
           /\ IF ~Truthy(date_val)
              THEN UNCHANGED <<per_day, min_date, max_date>>
              ELSE /\ per_day' = add_key(per_day, date_val, station_val)
                   /\ min_date' = next_min(min_date, date_val)
                   /\ max_date' = next_max(max_date, date_val)
    /\ row_i' = row_i + 1
    /\ UNCHANGED <<pc, stdout, stderr, status, targets, idx, handle, min_ts, max_ts,
                   collected_at, stats, audit_vars, emit_vars>>

\* summarise_hourly_file, one pass of the loop over the rows.
summarise_hourly_file_row ==
    /\ pc = "hourly"
    /\ Decodes(handle, Target.path)
    /\ row_i < Len(Target.path.rows)
    /\ LET fint == Get(NextRow, "fint")
           station == Get(NextRow, "idema")
       IN  /\ total_rows' = total_rows + 1
           /\ IF ~Truthy(fint)
              THEN UNCHANGED <<per_day, min_ts, max_ts>>
              ELSE /\ per_day' = add_key(per_day, SliceTo(fint, DayLen), station)
                   /\ min_ts' = next_min(min_ts, fint)
                   /\ max_ts' = next_max(max_ts, fint)
    /\ row_i' = row_i + 1
    /\ UNCHANGED <<pc, stdout, stderr, status, targets, idx, handle, min_date, max_date,
                   collected_at, stats, audit_vars, emit_vars>>

\* summarise_forecast, one pass of the loop over the rows.
summarise_forecast_row ==
    /\ pc = "forecast"
    /\ Decodes(handle, Target.path)
    /\ row_i < Len(Target.path.rows)
    /\ LET date_val == Get(NextRow, "fecha")
           ca == Get(NextRow, "collected_at")
       IN  /\ total_rows' = total_rows + 1
           /\ IF Truthy(date_val)
              THEN /\ per_day' = add_count(per_day, date_val)
                   /\ min_date' = next_min(min_date, date_val)
                   /\ max_date' = next_max(max_date, date_val)
              ELSE UNCHANGED <<per_day, min_date, max_date>>
           /\ collected_at' =
                 IF Truthy(ca) /\ (collected_at = None \/ StrLt(collected_at, ca))
                 THEN ca ELSE collected_at
    /\ row_i' = row_i + 1
    /\ UNCHANGED <<pc, stdout, stderr, status, targets, idx, handle, min_ts, max_ts,
                   stats, audit_vars, emit_vars>>

\* The dict the running scan returns.
scan_result ==
    CASE pc = "daily" ->
            [rows |-> total_rows, min_date |-> min_date, max_date |-> max_date,
             per_day_counts |-> [d \in DOMAIN per_day |-> Cardinality(per_day[d])]]
      [] pc = "hourly" ->
            [rows |-> total_rows, min_ts |-> min_ts, max_ts |-> max_ts,
             per_day_counts |-> [d \in DOMAIN per_day |-> Cardinality(per_day[d])]]
      [] pc = "forecast" ->
            [rows |-> total_rows, min_date |-> min_date, max_date |-> max_date,
             latest_collected_at |-> collected_at, per_day_rows |-> per_day]

\* The rows are exhausted: the scan returns its dict, main prints it with
\* emit_summary(label, stats) and goes on to the next target.
scan_return ==
    /\ pc \in {"daily", "hourly", "forecast"}
    /\ Decodes(handle, Target.path)
    /\ row_i = Len(Target.path.rows)
    /\ stats' = scan_result
    /\ stdout' = stdout \o emit_summary(Target.label, stats', LastNDefault)
    /\ idx' = idx + 1
    /\ pc' = "main"
    /\ UNCHANGED <<stderr, status, targets, scan_vars, audit_vars, emit_vars>>

\* emit_summary called on its own with a given dict.
emit_summary_call ==
    /\ pc = "emit"
    /\ stdout' = stdout \o emit_summary(title, stats, last_n)
    /\ pc' = "exit"
    /\ status' = 0
    /\ UNCHANGED <<stderr, audit_vars, summ_vars, emit_vars>>

(* Inputs of the summarizer *)

MaxRows == 4
MaxTargets == 2
MaxDays == 8

\* YYYY-MM-DD in 2024, and an ISO timestamp on that day.
Date(m, d) == Lit(2024, 4) \o <<"-">> \o Lit(m, 2) \o <<"-">> \o Lit(d, 2)
Timestamp(day, h) == day \o <<"T">> \o Lit(h, 2) \o <<":">> \o Lit(0, 2) \o <<":">> \o Lit(0, 2)

Row(fecha, indicativo, fint, idema, ca) ==
    [fecha |-> fecha, indicativo |-> indicativo, fint |-> fint, idema |-> idema,
     collected_at |-> ca]

\* Rows of a daily file: two days, two stations, an empty date, a row cut
\* short before its station or before its date (DictReader fills None).
DailyRows ==
    {Row(Date(1, 1), <<"A">>, None, None, None),
     Row(Date(1, 1), <<"B">>, None, None, None),
     Row(Date(1, 2), <<"A">>, None, None, None),
     Row(<<>>, <<"A">>, None, None, None),
     Row(Date(1, 2), None, None, None, None),
     Row(None, <<"B">>, None, None, None)}

\* Rows of an hourly file: timestamps on two days, one shorter than a date.
HourlyRows ==
    {Row(None, None, Timestamp(Date(1, 1), 0), <<"A">>, None),
     Row(None, None, Timestamp(Date(1, 1), 1), <<"A">>, None),
     Row(None, None, Timestamp(Date(1, 1), 0), <<"B">>, None),
     Row(None, None, Timestamp(Date(1, 2), 0), <<"A">>, None),
     Row(None, None, Lit(2024, 4), <<"B">>, None),
     Row(None, None, <<>>, <<"A">>, None)}

\* Rows of a forecast file.
ForecastRows ==
    {Row(Date(1, 1), None, None, None, Timestamp(Date(1, 3), 0)),
     Row(Date(1, 1), None, None, None, Timestamp(Date(1, 3), 6)),
     Row(Date(1, 2), None, None, None, <<>>),
     Row(Date(1, 2), None, None, None, Timestamp(Date(1, 3), 0)),
     Row(<<>>, None, None, None, Timestamp(Date(1, 3), 6)),
     Row(None, None, None, None, None)}

RowsOfKind(kind) ==
    CASE kind = "daily" -> DailyRows
      [] kind = "hourly" -> HourlyRows
      [] kind = "forecast" -> ForecastRows

CsvFile(gz, rows) ==
    [exists |-> TRUE, gz |-> gz,
     fieldnames |-> <<"fecha", "indicativo", "fint", "idema", "collected_at">>,
     rows |-> rows]

\* Two rows that fill every column.
SampleRows ==
    <<Row(Date(1, 1), <<"A">>, Timestamp(Date(1, 1), 0), <<"A">>, Timestamp(Date(1, 3), 0)),
      Row(Date(1, 2), <<"B">>, Timestamp(Date(1, 2), 0), <<"B">>, <<>>)>>

SampleFiles ==
    {NoFile, CsvFile(TRUE, SampleRows), CsvFile(FALSE, SampleRows), CsvFile(TRUE, <<>>)}

Labels == {HistoricalDaily, Hourly, CurrentDaily, Forecast}

\* One gzip file of each kind with any rows up to MaxRows.
ScanInput ==
    \E l \in {HistoricalDaily, Hourly, Forecast}, k \in 0..MaxRows :
        \E r \in [1..k -> RowsOfKind(kind_of(l))] :
            targets = <<[label |-> l, path |-> CsvFile(TRUE, r)]>>

\* Any list of up to MaxTargets targets over the sample files.
ListInput ==
    \E k \in 0..MaxTargets : targets \in [1..k -> [label : Labels, path : SampleFiles]]

\* The list __main__ builds from its four options.
MainInput ==
    \E a \in SampleFiles, b \in SampleFiles, c \in SampleFiles, d \in SampleFiles :
        targets = <<[label |-> HistoricalDaily, path |-> a], [label |-> Hourly, path |-> b],
                    [label |-> CurrentDaily, path |-> c], [label |-> Forecast, path |-> d]>>

InitSumm ==
    /\ pc = "main"
    /\ stdout = <<>> /\ stderr = <<>> /\ status = None
    /\ ScanInput \/ ListInput \/ MainInput
    /\ idx = 1
    /\ IdleScan
    /\ stats = <<>>
    /\ IdleAudit /\ IdleEmit

NextSumm ==
    \/ main_next
    \/ main_return
    \/ scan_read_error
    \/ summarise_daily_file_row
    \/ summarise_hourly_file_row
    \/ summarise_forecast_row
    \/ scan_return

SpecSumm == InitSumm /\ [][NextSumm]_vars

(* Inputs of emit_summary *)

MinOf(S) == CHOOSE x \in S : \A y \in S : StrLe(x, y)
MaxOf(S) == CHOOSE x \in S : \A y \in S : StrLe(y, x)
OrNone(S, v) == IF S = {} THEN None ELSE v

\* A per-day map over the days of January numbered in I, with counts 1 to 3.
PerDayOver(I) ==
    [d \in {Date(1, i) : i \in I} |-> 1 + ((CHOOSE i \in I : Date(1, i) = d) % 3)]

\* The dicts the three scans can return for a file with the per-day map m.
StatsOver(m) ==
    LET S == DOMAIN m
        lo == OrNone(S, MinOf(S))
        hi == OrNone(S, MaxOf(S))
    IN  {[rows |-> 3 * Cardinality(S), min_date |-> lo, max_date |-> hi,
          per_day_counts |-> m],
         [rows |-> 3 * Cardinality(S),
          min_ts |-> OrNone(S, Timestamp(lo, 0)), max_ts |-> OrNone(S, Timestamp(hi, 1)),
          per_day_counts |-> m],
         [rows |-> 3 * Cardinality(S), min_date |-> lo, max_date |-> hi,
          latest_collected_at |-> None, per_day_rows |-> m],
         [rows |-> 3 * Cardinality(S), min_date |-> lo, max_date |-> hi,
          latest_collected_at |-> Timestamp(Date(1, 3), 0), per_day_rows |-> m]}

InitEmit ==
    /\ pc = "emit"
    /\ stdout = <<>> /\ stderr = <<>> /\ status = None
    /\ title \in {Hourly, Forecast}
    /\ last_n = LastNDefault
    /\ \E I \in SUBSET (1..MaxDays) : stats \in StatsOver(PerDayOver(I))
    /\ targets = <<>> /\ idx = 1 /\ IdleScan
    /\ IdleAudit

NextEmit == emit_summary_call

SpecEmit == InitEmit /\ [][NextEmit]_vars

-----------------------------------------------------------------------------
(* Coverage Auditor: the documented properties *)

\* main ran to its return: both files loaded and the report was printed.
Reported == pc = "exit" /\ stderr = <<>>

Elems(seq) == {seq[i] : i \in 1..Len(seq)}

\* Strictly ascending in code-point order (hence without duplicates).
Ascending(seq) == \A i \in 1..Len(seq), j \in 1..Len(seq) : i < j => StrLt(seq[i], seq[j])

RefLoads ==
    /\ ref_file.exists /\ ref_file.gz
    /\ ref_file.fieldnames # None /\ HasField(ref_file.fieldnames, "CUMUN")

ForecastLoads ==
    /\ forecast_file.exists /\ ~forecast_file.gz
    /\ forecast_file.fieldnames # None /\ HasField(forecast_file.fieldnames, "municipio_id")

\* C1: once main has computed its results, missing lists exactly the
\* identifiers of (R - F) - E and unexpected_present exactly those of F & E,
\* each in ascending order; an identifier in both R and E is not in missing.
C1_SetArithmetic ==
    Reported =>
        /\ Elems(missing) = (ref_ids \ forecast_ids) \ EXPECTED_ABSENT
        /\ Ascending(missing)
        /\ Elems(unexpected_present) = forecast_ids \cap EXPECTED_ABSENT
        /\ Ascending(unexpected_present)
        /\ \A x \in ref_ids \cap EXPECTED_ABSENT : x \notin Elems(missing)

\* A run with two missing identifiers, an allow-listed identifier in the
\* reference set and an allow-listed identifier in the forecast.
C1_Witness ==
    /\ Reported
    /\ Len(missing) >= 2
    /\ unexpected_present # <<>>
    /\ (ref_ids \cap EXPECTED_ABSENT) \ forecast_ids # {}

WarningLines ==
    {i \in 1..Len(stdout) :
        stdout[i].text = "WARNING: expected-absent IDs present in forecast data: {}"}

\* C2: when both files load, the exit status is 0 if no reference identifier
\* is missing and 1 otherwise; allow-listed identifiers in the forecast add one
\* warning line and leave the status as it is; with an empty allow-list and
\* R = F the status is 0.
C2_ExitContract ==
    Reported =>
        /\ status = (IF (ref_ids \ forecast_ids) \ EXPECTED_ABSENT = {} THEN 0 ELSE 1)
        /\ Cardinality(WarningLines) =
              (IF forecast_ids \cap EXPECTED_ABSENT = {} THEN 0 ELSE 1)
        /\ (EXPECTED_ABSENT = {} /\ ref_ids = forecast_ids => status = 0)

\* A run that warns and still succeeds.
C2_Witness ==
    /\ Reported
    /\ unexpected_present # <<>>
    /\ ref_ids # {}
    /\ status = 0

\* C3: a reference file that is absent or (being a gzip csv) lacks CUMUN, and,
\* once the reference file has loaded, a forecast file that is absent or (being
\* a plain csv) lacks municipio_id, end the run with status 2 and nothing on
\* standard output; an absent reference file ends it before the forecast file
\* is looked at.
C3_FatalErrors ==
    pc = "exit" =>
        /\ (\/ ~ref_file.exists
            \/ ref_file.exists /\ ref_file.gz /\ ~RefLoads
            \/ RefLoads /\ ~forecast_file.exists
            \/ RefLoads /\ forecast_file.exists /\ ~forecast_file.gz /\ ~ForecastLoads)
           => status = 2 /\ stdout = <<>>
        /\ ~ref_file.exists
           => stderr = <<Line("ERROR: reference file not found: {path}", <<>>)>>
              /\ forecast_ids = {}

\* The reference file loaded some identifiers and the forecast file is absent.
C3_Witness ==
    /\ pc = "exit"
    /\ RefLoads /\ ref_ids # {}
    /\ ~forecast_file.exists
    /\ status = 2

ExampleRefRows ==
    <<[CUMUN |-> Lit(1, 1)], [CUMUN |-> Lit(1234, 5)], [CUMUN |-> Lit(5000, 4)]>>

ExampleForecastRows ==
    <<[municipio_id |-> Lit(1, 5)], [municipio_id |-> Lit(5000, 5)]>>

ExampleRun ==
    /\ RefLoads /\ ref_file.rows = ExampleRefRows
    /\ ForecastLoads /\ forecast_file.rows = ExampleForecastRows
    /\ Lit(1, 5) \in EXPECTED_ABSENT
    /\ Lit(1234, 5) \notin EXPECTED_ABSENT

\* C4: reference cells "1", "01234", "5000" load as 00001, 01234, 05000,
\* forecast cells "00001", "05000" load verbatim, and with 00001 (and not
\* 01234) on the allow-list the run ends with missing = [01234], status 1 and
\* unexpected_present = [00001].
C4_WorkedExample ==
    (pc = "exit" /\ ExampleRun) =>
        /\ ref_ids = {Lit(1, 5), Lit(1234, 5), Lit(5000, 5)}
        /\ forecast_ids = {Lit(1, 5), Lit(5000, 5)}
        /\ missing = <<Lit(1234, 5)>>
        /\ status = 1
        /\ unexpected_present = <<Lit(1, 5)>>

C4_Witness == pc = "exit" /\ ExampleRun /\ status = 1

-----------------------------------------------------------------------------
(* Dataset Summarizer: the documented properties *)

Scanning == pc \in {"daily", "hourly", "forecast"}

\* A cell that holds a value: neither absent nor the empty str.
NonEmpty(v) == v # None /\ v # <<>>

\* The column a scan reads its date or timestamp from.
DateCol(kind) == IF kind = "hourly" THEN "fint" ELSE "fecha"

\* The day a scan files a date or timestamp under.
DayOf(kind, v) ==
    IF kind = "hourly" THEN SubSeq(v, 1, IF Len(v) < 10 THEN Len(v) ELSE 10) ELSE v

Least(S) == CHOOSE x \in S : \A y \in S : x = y \/ StrLt(x, y)
Greatest(S) == CHOOSE x \in S : \A y \in S : x = y \/ StrLt(y, x)

\* C5: every scan reads its file through a decoder that matches the file's
\* format (gzip for a gzip file, plain for a plain-text file), and no run ends
\* in a decoding error raised during the scan.
C5_TransparentDecompression ==
    /\ Scanning => handle = (IF Target.path.gz THEN "gzip" ELSE "plain")
    /\ pc = "exit" => stderr = <<>>

BlankLines == {i \in 1..Len(stdout) : stdout[i].text = ""}

\* The n-th block of the output: the lines after the (n-1)-th blank line, up to
\* and including the n-th.
Block(n) ==
    LET last == CHOOSE i \in BlankLines : Cardinality({j \in BlankLines : j <= i}) = n
        prev == {j \in BlankLines : j < last}
        first == IF prev = {} THEN 1 ELSE 1 + (CHOOSE j \in prev : \A k \in prev : k <= j)
    IN  SubSeq(stdout, first, last)

OneBlockPerTarget ==
    /\ status = 0
    /\ Cardinality(BlankLines) = Len(targets)
    /\ Len(stdout) \in BlankLines \/ targets = <<>>
    /\ \A n \in 1..Len(targets) :
          /\ Block(n)[1] = Line("=== {} ===", <<targets[n].label>>)
          /\ ~targets[n].path.exists =>
                Block(n) = <<Line("=== {} ===", <<targets[n].label>>),
                             Line("File not found: {}", <<"path">>),
                             Line("", <<>>)>>

\* C6: when the run ends, the exit status is 0 and the output is one block per
\* target, in the order of the list, the block of a target whose file does not
\* exist being its header line, a "File not found" line and a blank line.
C6_SkipAndContinue == pc = "exit" => OneBlockPerTarget

\* The same, for the lists all of whose existing files are gzip files.
SkipAndContinue_GzipOnly ==
    (pc = "exit" /\ \A n \in 1..Len(targets) : targets[n].path.exists => targets[n].path.gz)
        => OneBlockPerTarget

\* The rows the running scan has consumed whose date or timestamp is on day d.
RowsSeenOn(d) ==
    {i \in 1..row_i :
        LET v == Target.path.rows[i][DateCol(pc)]
        IN  NonEmpty(v) /\ DayOf(pc, v) = d}

RowsSeenDated == {i \in 1..row_i : NonEmpty(Target.path.rows[i][DateCol(pc)])}

\* C7: at every point of a daily or hourly scan, each day has at most as many
\* distinct keys as rows seen for it, min and max are both defined exactly when
\* a row with a non-empty date or timestamp has been seen, and then min <= max.
C7_ScanInvariants ==
    pc \in {"daily", "hourly"} =>
        LET lo == IF pc = "daily" THEN min_date ELSE min_ts
            hi == IF pc = "daily" THEN max_date ELSE max_ts
        IN  /\ \A d \in DOMAIN per_day :
                  Cardinality(per_day[d]) <= Cardinality(RowsSeenOn(d))
            /\ (lo # None) <=> (RowsSeenDated # {})
            /\ (hi # None) <=> (RowsSeenDated # {})
            /\ (lo # None /\ hi # None) => (lo = hi \/ StrLt(lo, hi))

\* An hourly scan four rows in: a day with two stations, an empty timestamp
\* seen, and a minimum below the maximum.
C7_Witness ==
    /\ pc = "hourly" /\ row_i = 4
    /\ \E d \in DOMAIN per_day : Cardinality(per_day[d]) = 2
    /\ Cardinality(RowsSeenDated) = 3
    /\ StrLt(min_ts, max_ts)

\* The target whose scan has just returned.
Returned == targets[idx - 1]

ForecastReturned ==
    /\ pc = "main" /\ idx > 1
    /\ Returned.path.exists /\ Returned.path.gz
    /\ kind_of(Returned.label) = "forecast"

Column(rows, col) == [i \in 1..Len(rows) |-> rows[i][col]]

\* C8: the dict a forecast scan returns maps each non-empty fecha to the number
\* of rows that carry it, has the least and greatest non-empty fecha as
\* min_date and max_date and the greatest non-empty collected_at as
\* latest_collected_at (None where there is none); rows dated 2024-01-01 three
\* times and 2024-01-02 once give {2024-01-01: 3, 2024-01-02: 1}.
C8_ForecastSummary ==
    ForecastReturned =>
        LET fechas == Column(Returned.path.rows, "fecha")
            cas == Column(Returned.path.rows, "collected_at")
            dates == {fechas[i] : i \in {j \in 1..Len(fechas) : NonEmpty(fechas[j])}}
            stamps == {cas[i] : i \in {j \in 1..Len(cas) : NonEmpty(cas[j])}}
        IN  /\ DOMAIN stats.per_day_rows = dates
            /\ \A d \in dates :
                  stats.per_day_rows[d] =
                      Cardinality({i \in 1..Len(fechas) : fechas[i] = d})
            /\ stats.min_date = (IF dates = {} THEN None ELSE Least(dates))
            /\ stats.max_date = (IF dates = {} THEN None ELSE Greatest(dates))
            /\ stats.latest_collected_at =
                  (IF stamps = {} THEN None ELSE Greatest(stamps))
            /\ fechas = <<Date(1, 1), Date(1, 1), Date(1, 1), Date(1, 2)>> =>
                  /\ stats.per_day_rows =
                        [d \in {Date(1, 1), Date(1, 2)} |-> IF d = Date(1, 1) THEN 3 ELSE 1]
                  /\ stats.min_date = Date(1, 1)
                  /\ stats.max_date = Date(1, 2)

\* The forecast file of the example has been summarised.
C8_Witness ==
    /\ ForecastReturned
    /\ Column(Returned.path.rows, "fecha") = <<Date(1, 1), Date(1, 1), Date(1, 1), Date(1, 2)>>
    /\ stats.per_day_rows[Date(1, 1)] = 3
    /\ stats.latest_collected_at # None

\* The per-day map of the dict given to emit_summary, and its label.
StatsPerDay ==
    IF "per_day_counts" \in DOMAIN stats THEN stats.per_day_counts ELSE stats.per_day_rows

StatsLabel ==
    IF "per_day_counts" \in DOMAIN stats THEN "stations_per_day" ELSE "rows_per_day"

\* The last_n greatest days of the map.
RecentDays ==
    {d \in DOMAIN StatsPerDay :
        Cardinality({e \in DOMAIN StatsPerDay : StrLt(d, e)}) < last_n}

\* The fields printed, in the fixed order.
PrintedKeys ==
    LET present(k) == k \in DOMAIN stats /\ (k = "rows" \/ stats[k] # None)
    IN  SelectSeq(<<"rows", "min_date", "max_date", "min_ts", "max_ts",
                    "latest_collected_at">>, present)

Smaller(a, b) == IF a < b THEN a ELSE b

\* The header line, then the printed fields.
HeadOfSummary ==
    /\ stdout[1] = Line("=== {} ===", <<title>>)
    /\ \A i \in 1..Len(PrintedKeys) :
          stdout[1 + i] = Line("{}: {}", <<PrintedKeys[i], stats[PrintedKeys[i]]>>)

\* The labeled per-day block from line `at` on, then the blank line that ends
\* the summary.
BlockOfSummary(at) ==
    LET recent == RecentDays
        n == Cardinality(recent)
    IN  /\ n = Smaller(last_n, Cardinality(DOMAIN StatsPerDay))
        /\ stdout[at] = Line("{} (last {} days):", <<StatsLabel, n>>)
        /\ \A i \in 1..n :
              LET day == CHOOSE d \in recent :
                             Cardinality({e \in recent : StrLt(e, d)}) = i - 1
              IN  stdout[at + i] = Line("  {}: {}", <<day, StatsPerDay[day]>>)
        /\ Len(stdout) = at + n + 1
        /\ stdout[Len(stdout)] = Line("", <<>>)

\* C9 as stated: emit_summary prints the header, the present non-null fields
\* in the fixed order, a labeled per-day block of the min(N, days) greatest
\* days in ascending order, and a blank line.
C9_AlwaysLabeledBlock ==
    pc = "exit" =>
        /\ Len(stdout) >= Len(PrintedKeys) + 3
        /\ HeadOfSummary
        /\ BlockOfSummary(Len(PrintedKeys) + 2)

\* C9, amended: the labeled per-day block is printed when the per-day map is
\* not empty; when it is empty the blank line follows the fields directly.
C9_PrintedFormat ==
    pc = "exit" =>
        /\ HeadOfSummary
        /\ IF DOMAIN StatsPerDay # {}
           THEN BlockOfSummary(Len(PrintedKeys) + 2)
           ELSE /\ Len(stdout) = Len(PrintedKeys) + 2
                /\ stdout[Len(stdout)] = Line("", <<>>)

\* A forecast summary of more days than the default N.
C9_Witness ==
    /\ pc = "exit"
    /\ last_n = LastNDefault
    /\ Cardinality(DOMAIN StatsPerDay) > last_n
    /\ "latest_collected_at" \in DOMAIN stats /\ stats.latest_collected_at # None

RECURSIVE SumOver(_, _)
SumOver(f, S) ==
    IF S = {} THEN 0
    ELSE LET d == CHOOSE x \in S : TRUE
         IN  (IF pc = "forecast" THEN f[d] ELSE Cardinality(f[d])) + SumOver(f, S \ {d})

\* The rows counted in the per-day data of the running scan.
CountedPerDay == SumOver(per_day, DOMAIN per_day)

\* The total is every row consumed; it is at least the rows counted per day
\* and exceeds them whenever a row without a date was consumed.
TotalsCoverPerDay ==
    Scanning =>
        /\ total_rows = row_i
        /\ total_rows >= CountedPerDay
        /\ total_rows = CountedPerDay => RowsSeenDated = 1..row_i

\* A step of a scan over a row whose date or timestamp is empty or absent.
EmptyDateStep ==
    /\ Scanning /\ pc' = pc /\ row_i' = row_i + 1
    /\ ~NonEmpty(NextRow[DateCol(pc)])

\* What such a step does: it counts the row and leaves the per-day data and
\* the range alone; in a forecast scan it still takes the row's collected_at
\* when that is non-empty and greater than the one held.
EmptyDateFrame ==
    /\ total_rows' = total_rows + 1
    /\ per_day' = per_day
    /\ min_date' = min_date /\ max_date' = max_date
    /\ min_ts' = min_ts /\ max_ts' = max_ts
    /\ collected_at' =
          (IF /\ pc = "forecast"
              /\ NonEmpty(NextRow.collected_at)
              /\ (collected_at = None \/ StrLt(collected_at, NextRow.collected_at))
           THEN NextRow.collected_at ELSE collected_at)

\* C10: a row with an empty or absent date is counted in the total and changes
\* neither the per-day map nor min and max (a forecast scan may still raise
\* latest_collected_at from it), so the total is at least the rows counted per
\* day, with equality only if no row had an empty date.
C10_EmptyDateFrame ==
    [][(EmptyDateStep => EmptyDateFrame) /\ TotalsCoverPerDay']_vars

\* A forecast scan has just taken its latest collected_at from a row without
\* a date.
C10_Witness ==
    /\ pc = "forecast" /\ row_i >= 2
    /\ ~NonEmpty(Target.path.rows[row_i].fecha)
    /\ collected_at = Target.path.rows[row_i].collected_at
    /\ \A i \in 1..(row_i - 1) : Target.path.rows[i].collected_at # collected_at
    /\ total_rows > CountedPerDay

=============================================================================
